---- MODULE Spec2Model ----
(***************************************************************************)
(* Model of LAB7-8/analyze.py: the Bandit commit run driver                *)
(* (run_bandit_analysis) and the aggregation pass (analyze_results).       *)
(*                                                                         *)
(* Strings whose content matters (CWE identifiers, the joined CWE column)  *)
(* are sequences of code points, so that str(), sorted() and "; ".join()   *)
(* are computed and not assumed.  JSON values are records tagged by kind.  *)
(***************************************************************************)
EXTENDS Integers, Sequences, FiniteSets, TLC

(***************************************************************************)
(* Bounds                                                                  *)
(***************************************************************************)
MaxFindings == 2
NumRepos == 2
HistLen == 2

(***************************************************************************)
(* Python string helpers                                                   *)
(***************************************************************************)
\* str(n) for a non-negative int: its decimal digits ('0' is code point 48)
RECURSIVE PyStrInt(_)
PyStrInt(n) ==
    IF n < 10 THEN <<48 + n>> ELSE PyStrInt(n \div 10) \o <<48 + (n % 10)>>

\* a < b for Python str: lexicographic by code point
RECURSIVE StrLess(_, _)
StrLess(a, b) ==
    IF a = <<>> THEN b # <<>>
    ELSE IF b = <<>> THEN FALSE
    ELSE IF Head(a) # Head(b) THEN Head(a) < Head(b)
    ELSE StrLess(Tail(a), Tail(b))

\* sorted(S) for a set of str
RECURSIVE sorted(_)
sorted(S) ==
    IF S = {} THEN <<>>
    ELSE LET m == CHOOSE x \in S : \A y \in S \ {x} : StrLess(x, y)
         IN  <<m>> \o sorted(S \ {m})

\* "; " as code points
SEP == <<59, 32>>

\* sep.join(seq)
RECURSIVE join(_, _)
join(sep, seq) ==
    IF seq = <<>> THEN <<>>
    ELSE IF Len(seq) = 1 THEN seq[1]
    ELSE seq[1] \o sep \o join(sep, Tail(seq))

(***************************************************************************)
(* JSON values                                                             *)
(***************************************************************************)
\* value of issue_severity / issue_confidence
FAbsent  == [kind |-> "absent", s |-> ""]
FStr(s)  == [kind |-> "str", s |-> s]
FNull    == [kind |-> "null", s |-> ""]
FNum     == [kind |-> "num", s |-> ""]
FList    == [kind |-> "list", s |-> ""]

\* value of issue_cwe["id"]
IdAbsent    == [kind |-> "absent", chars |-> <<>>, n |-> 0]
IdNull      == [kind |-> "null", chars |-> <<>>, n |-> 0]
IdStr(cs)   == [kind |-> "str", chars |-> cs, n |-> 0]
IdNum(n)    == [kind |-> "num", chars |-> <<>>, n |-> n]

\* value of issue_cwe
CweAbsent   == [kind |-> "absent", id |-> IdAbsent]
CweStr      == [kind |-> "str", id |-> IdAbsent]
CweNull     == [kind |-> "null", id |-> IdAbsent]
CweDict(id) == [kind |-> "dict", id |-> id]

\* one element of "results"
Issue(sev, conf, cwe) ==
    [kind |-> "dict", issue_severity |-> sev, issue_confidence |-> conf,
     issue_cwe |-> cwe]
NonDictIssue(k) ==
    [kind |-> k, issue_severity |-> FAbsent, issue_confidence |-> FAbsent,
     issue_cwe |-> CweAbsent]

\* value of data["results"]; items are what iterating it yields
\* (the elements of a list, the characters of a str, the keys of a dict)
ResAbsent      == [kind |-> "absent", items |-> <<>>]
ResList(items) == [kind |-> "list", items |-> items]
ResNull        == [kind |-> "null", items |-> <<>>]
ResNum         == [kind |-> "num", items |-> <<>>]
ResStr(n)      == [kind |-> "str", items |-> [i \in 1..n |-> NonDictIssue("str")]]
ResDict(n)     == [kind |-> "dict", items |-> [i \in 1..n |-> NonDictIssue("str")]]

\* content of a report file; "unparseable" is text json.load rejects
DocDict(res)   == [kind |-> "dict", results |-> res]
DocList        == [kind |-> "list", results |-> ResAbsent]
DocNull        == [kind |-> "null", results |-> ResAbsent]
DocUnparseable == [kind |-> "unparseable", results |-> ResAbsent]

(***************************************************************************)
(* analyze_results: the per-report parser (lines 89-124)                   *)
(***************************************************************************)
SeverityKeys == {"HIGH", "MEDIUM", "LOW"}

ZeroCounts == [k \in SeverityKeys |-> 0]

\* dict.get(key, default) on a field that may be absent
Get(field, default) == IF field.kind = "absent" THEN default ELSE field

\* "x in counts" raises TypeError when x is unhashable (a list or a dict)
Unhashable(field) == field.kind \in {"list", "dict"}

\* a slip: a level outside the three keys is counted as LOW
TallyUnknownAsLow(counts, field) ==
    IF field.kind = "str"
    THEN IF field.s \in DOMAIN counts
         THEN [counts EXCEPT ![field.s] = @ + 1]
         ELSE [counts EXCEPT !["LOW"] = @ + 1]
    ELSE counts

\* "if x in counts: counts[x] += 1"
Tally(counts, field) ==
    IF field.kind = "str" /\ field.s \in DOMAIN counts
    THEN [counts EXCEPT ![field.s] = @ + 1]
    ELSE counts

\* truth value of cwe_id
Truthy(id) ==
    CASE id.kind = "str" -> id.chars # <<>>
      [] id.kind = "num" -> id.n # 0
      [] OTHER -> FALSE

\* str(cwe_id)
PyStr(id) == IF id.kind = "num" THEN PyStrInt(id.n) ELSE id.chars

\* a slip: the set is replaced by the identifier of the latest finding
AddCweKeepingLast(unique_cwes, cwe_data) ==
    IF cwe_data.kind = "dict" /\ Truthy(cwe_data.id)
    THEN {PyStr(cwe_data.id)}
    ELSE unique_cwes

\* lines 109-113
AddCwe(unique_cwes, cwe_data) ==
    IF cwe_data.kind = "dict"
    THEN LET cwe_id == cwe_data.id
         IN  IF Truthy(cwe_id) THEN unique_cwes \cup {PyStr(cwe_id)}
             ELSE unique_cwes
    ELSE unique_cwes

\* loop state of "for issue in results"
LoopStart ==
    [raised |-> FALSE, confidence_counts |-> ZeroCounts,
     severity_counts |-> ZeroCounts, unique_cwes |-> {}]

\* lines 98-113, one iteration
LoopBody(st, issue) ==
    IF issue.kind # "dict" THEN [st EXCEPT !.raised = TRUE]
    ELSE
    LET confidence == Get(issue.issue_confidence, FStr("UNKNOWN"))
        severity   == Get(issue.issue_severity, FStr("UNKNOWN"))
        cwe_data   == Get(issue.issue_cwe, CweDict(IdAbsent))
    IN  IF Unhashable(confidence) \/ Unhashable(severity)
        THEN [st EXCEPT !.raised = TRUE]
        ELSE [raised |-> FALSE,
              confidence_counts |-> Tally(st.confidence_counts, confidence),
              severity_counts |-> Tally(st.severity_counts, severity),
              unique_cwes |-> AddCwe(st.unique_cwes, cwe_data)]

RECURSIVE Loop(_, _)
Loop(st, items) ==
    IF st.raised \/ items = <<>> THEN st
    ELSE Loop(LoopBody(st, Head(items)), Tail(items))

\* lines 89-113: json.load, data.get and the loop; raised = an exception
\* leaves analyze_results
ParseLoop(data) ==
    IF data.kind # "dict" THEN [LoopStart EXCEPT !.raised = TRUE]
    ELSE LET results == Get(data.results, ResList(<<>>))
         IN  IF results.kind \notin {"list", "str", "dict"}
             THEN [LoopStart EXCEPT !.raised = TRUE]
             ELSE Loop(LoopStart, results.items)

\* lines 117-124
MakeRecord(name, commit_hash, st) ==
    [Repository |-> name,
     Commit |-> commit_hash,
     HighSeverity |-> st.severity_counts["HIGH"],
     MediumSeverity |-> st.severity_counts["MEDIUM"],
     LowSeverity |-> st.severity_counts["LOW"],
     UniqueCWEIDs |-> IF st.unique_cwes # {}
                      THEN join(SEP, sorted(st.unique_cwes)) ELSE <<>>]

\* lines 89-124 for one report: the record appended to repo_results, or the
\* call the exception comes from
ParseFile(name, commit_hash, data) ==
    IF data.kind = "unparseable" THEN [state |-> "json.load", rows |-> <<>>]
    ELSE LET st == ParseLoop(data)
         IN  IF st.raised THEN [state |-> "raised", rows |-> <<>>]
             ELSE [state |-> "ok", rows |-> <<MakeRecord(name, commit_hash, st)>>]

(***************************************************************************)
(* Configuration and file system                                           *)
(***************************************************************************)
COMMITS_TO_ANALYZE == 100

\* the first NumRepos entries of REPOSITORIES
REPOSITORIES == SubSeq(<<"music-dl", "ChatTTS", "llama-cpp-python">>, 1, NumRepos)

Repos == 1..NumRepos

\* the history of repository r after clone_repositories: commits 1..Newest(r),
\* Newest(r) the newest; the repositories differ in the length of their history
Newest(r) == IF HistLen + 1 - r >= 1 THEN HistLen + 1 - r ELSE 1
Commits(r) == 1..Newest(r)

NoFile == [kind |-> "nofile", results |-> ResAbsent]

\* file names, split in the parts startswith/endswith/replace look at
ReportName(commit) == [pre |-> "bandit_results_", mid |-> commit, suf |-> ".json"]
CommitListName == [pre |-> "commit_list", mid |-> 0, suf |-> ".txt"]

\* reports the analyzer writes in the runs of the driver
DocClean == DocDict(ResList(<<>>))
DocIssue == DocDict(ResList(<<Issue(FStr("HIGH"), FStr("HIGH"), CweDict(IdNum(89)))>>))

VARIABLES
    pc,              \* position in the program
    ri,              \* index of "repo" in the loop over REPOSITORIES
    ci,              \* index of "commit" in the loop over commits
    commits,         \* run_bandit_analysis: the lines read from commit_list.txt
    tree,            \* tree[r]: the commit the working tree of r is at
    commit_list,     \* commit_list[r]: content of r/commit_list.txt
    reports,         \* reports[r][c]: content of r/bandit_results_<c>.json
    pending,         \* analyze_results: names os.listdir has yet to yield
    repo_results,    \* analyze_results: records of the current repository
    all_results,     \* analyze_results: records of all repositories so far
    summary,         \* summary[r]: <r>_summary.csv, whether written and its rows
    combined,        \* combined_summary.csv, whether written and its rows
    crash,           \* the call an uncaught exception came from, or "none"
    rerun,           \* whether run_bandit_analysis has been run before
    visited,         \* the repositories the current run has entered
    orepo,           \* the repository the current run entered last
    outcome,         \* outcome[c]: what the current run did for commit c of orepo
    treeAtOpen,      \* tree[orepo] when the current run entered orepo
    reportsAtOpen,   \* reports[orepo] when the current run entered orepo
    doc,             \* parser harness: the report being parsed
    parsed           \* parser harness: the result of parsing doc

vars == <<pc, ri, ci, commits, tree, commit_list, reports, pending,
          repo_results, all_results, summary, combined, crash, rerun, visited,
          orepo, outcome, treeAtOpen, reportsAtOpen, doc, parsed>>

historyVars == <<rerun, visited, orepo, outcome, treeAtOpen, reportsAtOpen>>
analyzeVars == <<pending, repo_results, all_results, summary, combined, crash>>
harnessVars == <<doc, parsed>>

Unwritten == [written |-> FALSE, rows |-> <<>>]
Written(rows) == [written |-> TRUE, rows |-> rows]

NoOutcome(r) == [c \in Commits(r) |-> "none"]

\* the state after clone_repositories: fresh clones at their newest commit
Init ==
    /\ pc = "generate"
    /\ ri = 1
    /\ ci = 1
    /\ commits = <<>>
    /\ tree = [r \in Repos |-> Newest(r)]
    /\ commit_list = [r \in Repos |-> <<>>]
    /\ reports = [r \in Repos |-> [c \in Commits(r) |-> NoFile]]
    /\ pending = {}
    /\ repo_results = <<>>
    /\ all_results = <<>>
    /\ summary = [r \in Repos |-> Unwritten]
    /\ combined = Unwritten
    /\ crash = "none"
    /\ rerun = FALSE
    /\ visited = {}
    /\ orepo = 1
    /\ outcome = NoOutcome(1)
    /\ treeAtOpen = tree[1]
    /\ reportsAtOpen = reports[1]
    /\ doc = NoFile
    /\ parsed = [state |-> "none", rows |-> <<>>]

(***************************************************************************)
(* generate_commit_lists (lines 38-50)                                     *)
(***************************************************************************)
Min(a, b) == IF a < b THEN a ELSE b

\* git log --pretty=format:%H --no-merges -n N, from the commit the tree is at
GitLog(head, n) == [i \in 1..Min(head, n) |-> head + 1 - i]

GenerateCommitList ==
    /\ pc = "generate"
    /\ commit_list' = [commit_list EXCEPT ![ri] = GitLog(tree[ri], COMMITS_TO_ANALYZE)]
    /\ IF ri < NumRepos
       THEN ri' = ri + 1 /\ pc' = pc
       ELSE ri' = 1 /\ pc' = "repo"
    /\ UNCHANGED <<ci, commits, tree, reports, historyVars, analyzeVars, harnessVars>>

(***************************************************************************)
(* run_bandit_analysis (lines 52-74)                                       *)
(***************************************************************************)
\* a slip: the existence test is lost and every commit is analyzed again
ReportExistsNever(r, commit) == FALSE

\* os.path.exists(output_file), line 65
ReportExists(r, commit) == reports[r][commit] # NoFile

\* a slip: the except clause ends the loop over commits
AfterErrorBreak(i) == Len(commits) + 1

\* the index the loop over commits goes on with after the except clause
AfterError(i) == i + 1

\* a slip: a failed checkout leaves the tree at the commit all the same
CheckoutAlwaysMoves(t, r, commit, ok) == [t EXCEPT ![r] = commit]

\* the working tree after "git checkout commit", line 69
Checkout(t, r, commit, ok) == IF ok THEN [t EXCEPT ![r] = commit] ELSE t

\* a slip: check=True is lost and the analyzer runs after a failed checkout
AfterCheckoutUnchecked(ok) == "bandit"

\* what follows "git checkout commit" run with check=True, line 69
AfterCheckout(ok) == IF ok THEN "bandit" ELSE "except"

\* what one analyzer process can leave behind: its exit status and the
\* content of the file named by -o.  The driver neither writes nor removes
\* that file itself.
BanditOutcomes ==
    {[ok |-> TRUE, file |-> d] : d \in {DocClean, DocIssue}}
    \cup {[ok |-> FALSE, file |-> d] : d \in {NoFile, DocIssue, DocUnparseable}}

\* lines 54-60: chdir, read commit_list.txt
OpenRepo ==
    /\ pc = "repo"
    /\ commits' = commit_list[ri]
    /\ ci' = 1
    /\ pc' = "commit"
    /\ visited' = visited \cup {ri}
    /\ orepo' = ri
    /\ outcome' = NoOutcome(ri)
    /\ treeAtOpen' = tree[ri]
    /\ reportsAtOpen' = reports[ri]
    /\ UNCHANGED <<ri, tree, commit_list, reports, rerun, analyzeVars, harnessVars>>

\* line 74 and the end of the loop over REPOSITORIES
CloseRepo ==
    /\ pc = "commit"
    /\ ci > Len(commits)
    /\ IF ri < NumRepos
       THEN ri' = ri + 1 /\ pc' = "repo"
       ELSE ri' = 1 /\ pc' = "ran"
    /\ UNCHANGED <<ci, commits, tree, commit_list, reports, historyVars,
                   analyzeVars, harnessVars>>

\* lines 64-66: the report exists, continue
SkipCommit ==
    /\ pc = "commit"
    /\ ci <= Len(commits)
    /\ ReportExists(ri, commits[ci])
    /\ outcome' = [outcome EXCEPT ![commits[ci]] = "skipped"]
    /\ ci' = ci + 1
    /\ UNCHANGED <<pc, ri, commits, tree, commit_list, reports, rerun, visited,
                   orepo, treeAtOpen, reportsAtOpen, analyzeVars, harnessVars>>

\* line 69: git checkout, which succeeds or raises CalledProcessError
GitCheckout ==
    /\ pc = "commit"
    /\ ci <= Len(commits)
    /\ ~ReportExists(ri, commits[ci])
    /\ \E ok \in BOOLEAN :
          /\ tree' = Checkout(tree, ri, commits[ci], ok)
          /\ outcome' = [outcome EXCEPT ![commits[ci]] =
                             IF ok THEN "checked_out" ELSE "checkout_failed"]
          /\ IF AfterCheckout(ok) = "bandit"
             THEN pc' = "bandit" /\ ci' = ci
             ELSE pc' = "commit" /\ ci' = AfterError(ci)
    /\ UNCHANGED <<ri, commits, commit_list, reports, rerun, visited, orepo,
                   treeAtOpen, reportsAtOpen, analyzeVars, harnessVars>>

\* line 70: the analyzer runs to completion on the working tree, then exits
\* with status 0 or raises CalledProcessError
RunBandit ==
    /\ pc = "bandit"
    /\ \E o \in BanditOutcomes :
          /\ reports' = [reports EXCEPT ![ri][commits[ci]] = o.file]
          /\ outcome' = [outcome EXCEPT ![commits[ci]] =
                             IF o.ok THEN "analyzed" ELSE "analyzer_failed"]
          /\ ci' = IF o.ok THEN ci + 1 ELSE AfterError(ci)
    /\ pc' = "commit"
    /\ UNCHANGED <<ri, commits, tree, commit_list, rerun, visited, orepo,
                   treeAtOpen, reportsAtOpen, analyzeVars, harnessVars>>

\* run_bandit_analysis is run again over the same commit lists
RunAgain ==
    /\ pc = "ran"
    /\ rerun' = TRUE
    /\ visited' = {}
    /\ outcome' = NoOutcome(orepo)
    /\ treeAtOpen' = tree[orepo]
    /\ reportsAtOpen' = reports[orepo]
    /\ pc' = "repo"
    /\ UNCHANGED <<ri, ci, commits, tree, commit_list, reports, orepo,
                   analyzeVars, harnessVars>>

(***************************************************************************)
(* analyze_results (lines 77-139)                                          *)
(***************************************************************************)
\* os.listdir('.') in the directory of repository r
ListDir(r) ==
    {ReportName(c) : c \in {c \in Commits(r) : reports[r][c] # NoFile}}
    \cup (IF commit_list[r] # <<>> THEN {CommitListName} ELSE {})

\* line 88
IsReportName(filename) ==
    filename.pre = "bandit_results_" /\ filename.suf = ".json"

\* line 116
CommitHash(filename) == filename.mid

\* a slip: the combined list is replaced by the rows of the last repository
extendReplacing(results, more) == more

\* all_results.extend(repo_results), line 133
extend(results, more) == results \o more

\* pd.DataFrame(repo_results) has no column "High Severity" when repo_results
\* is empty, and line 149 of generate_visualizations raises KeyError
VisualizationRaises(rows) == rows = <<>>

StartAnalyze ==
    /\ pc = "ran"
    /\ all_results' = <<>>
    /\ ri' = 1
    /\ pc' = "listdir"
    /\ UNCHANGED <<ci, commits, tree, commit_list, reports, pending, repo_results,
                   summary, combined, crash, historyVars, harnessVars>>

\* lines 83-87
ListReports ==
    /\ pc = "listdir"
    /\ repo_results' = <<>>
    /\ pending' = ListDir(ri)
    /\ pc' = "file"
    /\ UNCHANGED <<ri, ci, commits, tree, commit_list, reports, all_results,
                   summary, combined, crash, historyVars, harnessVars>>

\* lines 87-124 for the next name, in whatever order os.listdir yields them
ProcessFile ==
    /\ pc = "file"
    /\ \E filename \in pending :
          /\ pending' = pending \ {filename}
          /\ IF ~IsReportName(filename)
             THEN UNCHANGED <<pc, repo_results, crash>>
             ELSE LET data == reports[ri][filename.mid]
                      res  == ParseFile(REPOSITORIES[ri], CommitHash(filename), data)
                  IN  IF res.state # "ok"
                      THEN pc' = "crashed" /\ crash' = res.state
                           /\ UNCHANGED repo_results
                      ELSE /\ repo_results' = Append(repo_results, res.rows[1])
                           /\ UNCHANGED <<pc, crash>>
    /\ UNCHANGED <<ri, ci, commits, tree, commit_list, reports, all_results,
                   summary, combined, historyVars, harnessVars>>

\* lines 127-134
SaveRepo ==
    /\ pc = "file"
    /\ pending = {}
    /\ summary' = [summary EXCEPT ![ri] = Written(repo_results)]
    /\ IF VisualizationRaises(repo_results)
       THEN pc' = "crashed" /\ crash' = "generate_visualizations"
            /\ UNCHANGED <<ri, all_results>>
       ELSE /\ all_results' = extend(all_results, repo_results)
            /\ crash' = crash
            /\ IF ri < NumRepos
               THEN ri' = ri + 1 /\ pc' = "listdir"
               ELSE ri' = ri /\ pc' = "combine"
    /\ UNCHANGED <<ci, commits, tree, commit_list, reports, pending, repo_results,
                   combined, historyVars, harnessVars>>

\* lines 137-138
SaveCombined ==
    /\ pc = "combine"
    /\ combined' = Written(all_results)
    /\ pc' = "done"
    /\ UNCHANGED <<ri, ci, commits, tree, commit_list, reports, pending,
                   repo_results, all_results, summary, crash, historyVars, harnessVars>>

Next ==
    \/ GenerateCommitList
    \/ OpenRepo
    \/ CloseRepo
    \/ SkipCommit
    \/ GitCheckout
    \/ RunBandit
    \/ RunAgain
    \/ StartAnalyze
    \/ ListReports
    \/ ProcessFile
    \/ SaveRepo
    \/ SaveCombined

Spec == Init /\ [][Next]_vars

(***************************************************************************)
(* The parser on its own: one report of any shape json.load accepts, in    *)
(* the directory of the first repository under the name of commit 1        *)
(***************************************************************************)
Severities ==
    {FStr("HIGH"), FStr("MEDIUM"), FStr("LOW"), FStr("UNDEFINED"), FStr("high"),
     FAbsent, FNull}

Cwes ==
    {CweAbsent, CweStr, CweDict(IdAbsent), CweDict(IdStr(<<>>)), CweDict(IdNum(0)),
     CweDict(IdNum(89)), CweDict(IdStr(<<56, 57>>)), CweDict(IdNum(79)),
     CweDict(IdNum(100))}

Findings ==
    {Issue(sev, FStr("HIGH"), cwe) : sev \in Severities, cwe \in Cwes}
    \cup {Issue(sev, conf, CweAbsent) :
              sev \in {FStr("HIGH"), FAbsent},
              conf \in {FStr("LOW"), FAbsent, FList}}
    \cup {Issue(FList, FStr("HIGH"), CweDict(IdNum(89)))}
    \cup {NonDictIssue(k) : k \in {"str", "null", "list"}}

FindingLists == UNION {[1..n -> Findings] : n \in 0..MaxFindings}

ValidDocs ==
    {DocList, DocNull}
    \cup {DocDict(res) : res \in {ResAbsent, ResNull, ResNum, ResStr(0), ResStr(1),
                                  ResDict(0), ResDict(1)}}
    \cup {DocDict(ResList(items)) : items \in FindingLists}

InitParse ==
    /\ pc = "parse"
    /\ ri = 1
    /\ ci = 1
    /\ commits = <<>>
    /\ tree = [r \in Repos |-> Newest(r)]
    /\ commit_list = [r \in Repos |-> <<>>]
    /\ reports = [r \in Repos |-> [c \in Commits(r) |-> NoFile]]
    /\ pending = {}
    /\ repo_results = <<>>
    /\ all_results = <<>>
    /\ summary = [r \in Repos |-> Unwritten]
    /\ combined = Unwritten
    /\ crash = "none"
    /\ rerun = FALSE
    /\ visited = {}
    /\ orepo = 1
    /\ outcome = NoOutcome(1)
    /\ treeAtOpen = tree[1]
    /\ reportsAtOpen = reports[1]
    /\ doc \in ValidDocs
    /\ parsed = [state |-> "none", rows |-> <<>>]

\* lines 89-124 applied to doc
ParseReport ==
    /\ pc = "parse"
    /\ parsed' = ParseFile(REPOSITORIES[1], 1, doc)
    /\ pc' = "parsed"
    /\ UNCHANGED <<ri, ci, commits, tree, commit_list, reports, historyVars,
                   analyzeVars, doc>>

NextParse == ParseReport

SpecParse == InitParse /\ [][NextParse]_vars

(***************************************************************************)
(* Properties                                                              *)
(***************************************************************************)
Invoked == {"analyzed", "analyzer_failed"}
CheckedOut == {"checked_out", "analyzed", "analyzer_failed"}
Failed == {"checkout_failed", "analyzer_failed"}

\* the rows a summary holds for commit c of repository r
RowsOf(rows, r, c) ==
    {i \in 1..Len(rows) : rows[i].Repository = REPOSITORIES[r] /\ rows[i].Commit = c}

C2_FailureNeverAborts ==
    /\ pc \in {"commit", "bandit"} =>
          \A i \in 1..Len(commits) : i < ci => outcome[commits[i]] # "none"
    /\ pc \in {"repo", "commit", "bandit"} => \A r \in Repos : r < ri => r \in visited
    /\ pc = "ran" =>
          /\ visited = Repos
          /\ \A i \in 1..Len(commit_list[orepo]) : outcome[commit_list[orepo][i]] # "none"

\* the first commit of a list failed and the run is over, with the later
\* commit of that list analyzed
C2_Witness ==
    /\ pc = "ran"
    /\ \E r \in Repos : Len(commit_list[r]) >= 2 /\ reports[r][commit_list[r][1]] = NoFile
                        /\ reports[r][commit_list[r][2]] # NoFile
    /\ \E c \in DOMAIN outcome : outcome[c] \in Failed

\* C3: a commit whose analyzer invocation failed has no report file and no row
\* in the summary of its repository or in the combined summary.
C3_FailedCommitAbsent ==
    \A c \in DOMAIN outcome :
        outcome[c] = "analyzer_failed" =>
            /\ reports[orepo][c] = NoFile
            /\ RowsOf(summary[orepo].rows, orepo, c) = {}
            /\ RowsOf(combined.rows, orepo, c) = {}

\* C4: a report json.load cannot parse does not end analyze_results: no
\* exception of json.load leaves it.
C4_UnparseableReportSkipped ==
    crash # "json.load"

\* C5: parsing a report that is valid JSON never raises and yields exactly one
\* record.
C5_ParsingNeverFails ==
    pc = "parsed" => parsed.state = "ok" /\ Len(parsed.rows) = 1

\* the findings of doc, as the report lists them
FindingsOf(d) == d.results.items

\* the number of findings of d whose issue_severity is the string level
CountOf(d, level) ==
    Cardinality({i \in 1..Len(FindingsOf(d)) :
                    FindingsOf(d)[i].issue_severity = FStr(level)})

\* the number of findings of d whose severity is missing or none of the three
Unrecognized(d) ==
    Cardinality({i \in 1..Len(FindingsOf(d)) :
                    FindingsOf(d)[i].issue_severity
                        \notin {FStr("HIGH"), FStr("MEDIUM"), FStr("LOW")}})

\* C6: each severity counter of the record is the number of findings with
\* exactly that severity, so the three add up to the number of findings less
\* those with a missing or unrecognized severity; no counter is negative.
C6_CountConservation ==
    parsed.state = "ok" =>
        LET rec == parsed.rows[1]
        IN  /\ rec.HighSeverity = CountOf(doc, "HIGH")
            /\ rec.MediumSeverity = CountOf(doc, "MEDIUM")
            /\ rec.LowSeverity = CountOf(doc, "LOW")
            /\ rec.HighSeverity + rec.MediumSeverity + rec.LowSeverity
                  = Len(FindingsOf(doc)) - Unrecognized(doc)
            /\ rec.HighSeverity >= 0 /\ rec.MediumSeverity >= 0 /\ rec.LowSeverity >= 0

\* a report with a HIGH finding and a finding of unrecognized severity
C6_Witness ==
    /\ parsed.state = "ok"
    /\ Len(FindingsOf(doc)) = 2
    /\ Unrecognized(doc) = 1
    /\ parsed.rows[1].HighSeverity = 1

\* the decimal form of the numbers used as identifiers
Decimal(n) ==
    CASE n = 0 -> <<48>>
      [] n = 79 -> <<55, 57>>
      [] n = 89 -> <<56, 57>>
      [] n = 100 -> <<49, 48, 48>>

StringForm(id) == IF id.kind = "num" THEN Decimal(id.n) ELSE id.chars

\* the identifiers of the well-formed category mappings of d that satisfy P
IdsOf(d, P(_)) ==
    {StringForm(FindingsOf(d)[i].issue_cwe.id) :
        i \in {j \in 1..Len(FindingsOf(d)) :
                  /\ FindingsOf(d)[j].issue_cwe.kind = "dict"
                  /\ P(FindingsOf(d)[j].issue_cwe.id)}}

\* str is the "; "-joined strictly ascending list of the strings of ids
IsSortedJoin(str, ids) ==
    IF ids = {} THEN str = <<>>
    ELSE \E seq \in [1..Cardinality(ids) -> ids] :
            /\ \A i, j \in DOMAIN seq : i < j => StrLess(seq[i], seq[j])
            /\ str = join(SEP, seq)

\* an identifier that is present and not the empty string
NonEmptyId(id) == (id.kind = "str" /\ id.chars # <<>>) \/ id.kind = "num"

\* an identifier that is a non-empty string or a number other than 0
NonZeroId(id) == (id.kind = "str" /\ id.chars # <<>>) \/ (id.kind = "num" /\ id.n # 0)

\* C7 as stated: the stored category string is the sorted, duplicate-free,
\* "; "-joined list of the string forms of every non-empty identifier.
C7_NonEmptyIdsJoined ==
    parsed.state = "ok" =>
        IsSortedJoin(parsed.rows[1].UniqueCWEIDs, IdsOf(doc, NonEmptyId))

\* C7 as amended: the stored category string is the duplicate-free list, in
\* ascending code point order and joined by "; ", of the string forms of every
\* identifier that is a non-empty string or a non-zero number, whatever the
\* severity of its finding; the number 0 is dropped like an empty identifier.
C7_TruthyIdsJoined ==
    parsed.state = "ok" =>
        IsSortedJoin(parsed.rows[1].UniqueCWEIDs, IdsOf(doc, NonZeroId))

\* identifiers 79 and 100, the first from a finding of unrecognized severity,
\* are stored as "100; 79"
C7_Witness ==
    /\ parsed.state = "ok"
    /\ FindingsOf(doc) = <<Issue(FStr("UNDEFINED"), FStr("HIGH"), CweDict(IdNum(79))),
                           Issue(FStr("HIGH"), FStr("HIGH"), CweDict(IdNum(100)))>>
    /\ parsed.rows[1].UniqueCWEIDs = <<49, 48, 48, 59, 32, 55, 57>>

RECURSIVE TotalRows(_)
TotalRows(r) == IF r = 0 THEN 0 ELSE Len(summary[r].rows) + TotalRows(r - 1)

\* the rows of a summary that name repository r
RowsNaming(rows, r) == SelectSeq(rows, LAMBDA row : row.Repository = REPOSITORIES[r])

\* C8: the combined summary has as many rows as the repository summaries
\* together, and its rows naming a repository are the rows of that
\* repository's summary, in the same order.
C8_CombinedIsConcatenation ==
    combined.written =>
        /\ Len(combined.rows) = TotalRows(NumRepos)
        /\ \A r \in Repos :
              /\ summary[r].written
              /\ RowsNaming(combined.rows, r) = summary[r].rows
              /\ RowsNaming(summary[r].rows, r) = summary[r].rows

\* summaries of two and of one record are combined into three
C8_Witness ==
    /\ combined.written
    /\ Len(summary[1].rows) = 2
    /\ Len(summary[2].rows) = 1
    /\ Len(combined.rows) >= 3

\* C9: the analyzer runs for a commit only on the tree its checkout has just
\* produced; a commit whose checkout failed has no report; a report that
\* changed in this run belongs to a commit the analyzer was invoked for.
C9_AnalyzerAfterCheckout ==
    /\ pc = "bandit" =>
          /\ tree[ri] = commits[ci]
          /\ outcome[commits[ci]] = "checked_out"
    /\ \A c \in DOMAIN outcome :
          /\ outcome[c] = "checkout_failed" => reports[orepo][c] = NoFile
          /\ outcome[c] = "checked_out" => pc = "bandit" /\ commits[ci] = c
          /\ reports[orepo][c] # reportsAtOpen[c] => outcome[c] \in Invoked

\* the analyzer is about to run after the checkout of an earlier commit failed
C9_Witness ==
    /\ pc = "bandit"
    /\ \E c \in DOMAIN outcome : outcome[c] = "checkout_failed"

\* the positions in the commit list of orepo whose commit was checked out
CheckedOutAt ==
    {i \in 1..Len(commit_list[orepo]) : outcome[commit_list[orepo][i]] \in CheckedOut}

Last(S) == CHOOSE i \in S : \A j \in S : j <= i

\* C10: the working tree of the repository is at the last commit of the list
\* the run has checked out, or where it was when the run entered the
\* repository if it has checked out none; only commits whose report was
\* missing are checked out, and a report that existed is unchanged.
C10_TreeAtLastCheckout ==
    /\ tree[orepo] = IF CheckedOutAt = {} THEN treeAtOpen
                     ELSE commit_list[orepo][Last(CheckedOutAt)]
    /\ \A c \in DOMAIN outcome :
          /\ outcome[c] \in CheckedOut => reportsAtOpen[c] = NoFile
          /\ reportsAtOpen[c] # NoFile => reports[orepo][c] = reportsAtOpen[c]

\* a rerun is through a repository: it skipped the newest commit, checked out
\* an older one and left the tree there
C10_Witness ==
    /\ rerun
    /\ pc = "commit" /\ ci > Len(commits)
    /\ \E c, d \in DOMAIN outcome :
          /\ outcome[c] = "skipped"
          /\ outcome[d] \in Invoked
          /\ tree[orepo] = d
          /\ treeAtOpen # d

\* a rerun has skipped or failed to check out every commit of a repository
\* and its tree is where it was
C10_WitnessUnchanged ==
    /\ rerun
    /\ pc = "commit" /\ ci > Len(commits) /\ Len(commits) >= 2
    /\ \E c, d \in DOMAIN outcome :
          outcome[c] = "skipped" /\ outcome[d] = "checkout_failed"
    /\ tree[orepo] = treeAtOpen

====
